---- MODULE Spec2Model ----
(***************************************************************************)
(* Model of streamlit_app.py: the churn-prediction page.  One run of the   *)
(* script is a bulk-prediction section (raw CSV or preprocessed CSV)       *)
(* followed by the manual entry form.  Cell values are IEEE-like floats    *)
(* kept as exact rationals, NaN, +/-infinity, or text.                     *)
(***************************************************************************)
EXTENDS Integers, Sequences, FiniteSets, TLC

(***************************************************************************)
(* Bounds of the model.                                                    *)
(***************************************************************************)
\* longest batch built from the row pools
MaxRows == 3
\* number of fields in which a single uploaded raw row may differ from the base row
MaxRawEdits == 2
\* number of cells in which a single uploaded pre-encoded row may differ from the base row
MaxPreEdits == 1
\* number of widgets in which the submitted form may differ from the base form
MaxFormEdits == 1

(***************************************************************************)
(* Cell values.                                                            *)
(***************************************************************************)
Abs(x) == IF x < 0 THEN -x ELSE x

RECURSIVE Gcd(_, _)
Gcd(a, b) == IF b = 0 THEN a ELSE Gcd(b, a % b)

\* a finite float, as the rational n/d in lowest terms with d > 0
Num(n, d) ==
    LET s == IF d < 0 THEN -1 ELSE 1
        g == Gcd(Abs(n), Abs(d))
    IN  [k |-> "num", n |-> (s * n) \div g, d |-> (s * d) \div g, s |-> ""]

Int2(n) == Num(n, 1)

\* numpy.nan: a missing cell, or the result of a failed coercion
NaN == [k |-> "nan", n |-> 0, d |-> 1, s |-> ""]

\* +inf (sign = 1) or -inf (sign = -1)
Inf(sign) == [k |-> "inf", n |-> sign, d |-> 1, s |-> ""]

\* a text cell
Str(s) == [k |-> "str", n |-> 0, d |-> 1, s |-> s]

IsNum(v) == v.k = "num"
IsNull(v) == v.k = "nan"
Sign(x) == IF x < 0 THEN -1 ELSE 1

\* float(text): the texts of the model that parse as a number
ParseFloat(s) ==
    CASE s = "2000" -> Int2(2000)
      [] s = "90"   -> Int2(90)
      [] s = "24"   -> Int2(24)
      [] OTHER      -> NaN

\* pd.to_numeric(..., errors='coerce') on one cell
to_numeric(v) ==
    IF v.k = "str" THEN ParseFloat(v.s) ELSE v

\* x + 1 on floats
AddOne(v) ==
    CASE v.k = "num" -> Num(v.n + v.d, v.d)
      [] OTHER       -> v

\* a / b on floats (numpy: x/0 is +/-inf, 0/0 is nan, no exception)
Div(a, b) ==
    CASE a.k = "nan" \/ b.k = "nan" -> NaN
      [] a.k = "num" /\ b.k = "num" ->
            IF b.n = 0
            THEN IF a.n = 0 THEN NaN ELSE Inf(Sign(a.n))
            ELSE Num(a.n * b.d, a.d * b.n)
      [] a.k = "num" /\ b.k = "inf" -> Int2(0)
      [] a.k = "inf" /\ b.k = "num" -> Inf(a.n * Sign(b.n))
      [] a.k = "inf" /\ b.k = "inf" -> NaN

\* a * b on floats
Mul(a, b) ==
    CASE a.k = "nan" \/ b.k = "nan" -> NaN
      [] a.k = "num" /\ b.k = "num" -> Num(a.n * b.n, a.d * b.d)
      [] a.k = "inf" /\ b.k = "num" -> IF b.n = 0 THEN NaN ELSE Inf(a.n * Sign(b.n))
      [] a.k = "num" /\ b.k = "inf" -> IF a.n = 0 THEN NaN ELSE Inf(b.n * Sign(a.n))
      [] a.k = "inf" /\ b.k = "inf" -> Inf(a.n * b.n)

\* a <= b and a > b on floats; any comparison with nan is False
Leq(a, b) ==
    CASE a.k = "nan" \/ b.k = "nan" -> FALSE
      [] a.k = "num" /\ b.k = "num" -> a.n * b.d <= b.n * a.d
      [] a.k = "inf" /\ b.k = "inf" -> a.n <= b.n
      [] a.k = "inf" /\ b.k = "num" -> a.n < 0
      [] a.k = "num" /\ b.k = "inf" -> b.n > 0

Gt(a, b) ==
    /\ a.k # "nan"
    /\ b.k # "nan"
    /\ ~Leq(a, b)

Range(f) == {f[i] : i \in DOMAIN f}

(***************************************************************************)
(* Data frames: an ordered list of column names and a list of rows, each   *)
(* row a function from the column names to cells.                          *)
(***************************************************************************)
DataFrame(cols, rows) == [cols |-> cols, rows |-> rows]

ColSet(df) == Range(df.cols)

\* df[names]: the named columns, in the order named
Select(df, names) ==
    DataFrame(names, [i \in DOMAIN df.rows |-> [c \in Range(names) |-> df.rows[i][c]]])

\* df[name] = vals: overwrite the column in place, or append it
SetCol(df, name, vals) ==
    DataFrame(IF name \in ColSet(df) THEN df.cols ELSE Append(df.cols, name),
              [i \in DOMAIN df.rows |->
                  [c \in ColSet(df) \cup {name} |->
                      IF c = name THEN vals[i] ELSE df.rows[i][c]]])

\* df.values: the cells as a matrix, columns in the frame's order
Values(df) ==
    [i \in DOMAIN df.rows |-> [j \in DOMAIN df.cols |-> df.rows[i][df.cols[j]]]]

\* df.isnull().any().any()
HasNull(df) ==
    \E i \in DOMAIN df.rows : \E c \in ColSet(df) : IsNull(df.rows[i][c])

\* df.fillna(0)
fillna(df) ==
    DataFrame(df.cols,
              [i \in DOMAIN df.rows |->
                  [c \in ColSet(df) |->
                      IF IsNull(df.rows[i][c]) THEN Int2(0) ELSE df.rows[i][c]]])

(***************************************************************************)
(* The feature order the model expects.                                    *)
(***************************************************************************)
FEATURES ==
    << "gender", "SeniorCitizen", "Partner", "Dependents", "tenure",
       "PhoneService", "PaperlessBilling", "MonthlyCharges", "TotalCharges",
       "MultipleLines_Yes", "InternetService_Fiber optic", "InternetService_No",
       "PaymentMethod_Credit card (automatic)", "PaymentMethod_Electronic check",
       "PaymentMethod_Mailed check", "TenureGroup_Mid", "ChargeRatio",
       "Senior_Fiber", "HighRisk" >>

(***************************************************************************)
(* RAW -> PROCESSED                                                        *)
(***************************************************************************)
yes_no == [Yes |-> 1, No |-> 0]

male_female == [Male |-> 0, Female |-> 1]

\* Series.map(dict): a cell that is no key of the dict becomes NaN
MapDict(v, dict) ==
    IF v.k = "str" /\ v.s \in DOMAIN dict THEN Int2(dict[v.s]) ELSE NaN

\* x == 'text' as 0/1
EqText(v, text) == IF v.k = "str" /\ v.s = text THEN Int2(1) ELSE Int2(0)

\* lambda x: 1 if pd.notnull(x) and 12 <= x <= 36 else 0
TenureGroup_Mid(x) ==
    IF ~IsNull(x) /\ Leq(Int2(12), x) /\ Leq(x, Int2(36)) THEN Int2(1) ELSE Int2(0)

\* the ratio without the + 1 in the divisor
ChargeRatioNoOffset(monthly, total) == Div(monthly, total)

\* MonthlyCharges / (TotalCharges + 1)
ChargeRatio(monthly, total) == Div(monthly, AddOne(total))

\* SeniorCitizen * InternetService_Fiber optic
Senior_Fiber(senior, fiber) == Mul(senior, fiber)

\* (MonthlyCharges > 80).astype(int)
HighRisk(monthly) == IF Gt(monthly, Int2(80)) THEN Int2(1) ELSE Int2(0)

\* the columns preprocess_raw assigns, in the order of its assignments
Assigned ==
    << "TotalCharges", "MonthlyCharges", "tenure", "gender", "Partner",
       "Dependents", "PhoneService", "PaperlessBilling", "MultipleLines_Yes",
       "InternetService_Fiber optic", "InternetService_No",
       "PaymentMethod_Credit card (automatic)", "PaymentMethod_Electronic check",
       "PaymentMethod_Mailed check", "TenureGroup_Mid", "ChargeRatio",
       "Senior_Fiber", "HighRisk" >>

\* the uploaded columns the assignment of column c reads, in the order read
Reads(c) ==
    CASE c = "MultipleLines_Yes" -> << "MultipleLines" >>
      [] c \in {"InternetService_Fiber optic", "InternetService_No"} ->
            << "InternetService" >>
      [] c \in {"PaymentMethod_Credit card (automatic)",
                "PaymentMethod_Electronic check",
                "PaymentMethod_Mailed check"} -> << "PaymentMethod" >>
      [] c = "TenureGroup_Mid" -> << "tenure" >>
      [] c = "ChargeRatio" -> << "MonthlyCharges", "TotalCharges" >>
      [] c = "Senior_Fiber" -> << "SeniorCitizen" >>
      [] c = "HighRisk" -> << "MonthlyCharges" >>
      [] OTHER -> << c >>

\* the value the assignment of column c gives the row whose uploaded cells are r
EncodeCell(r, c) ==
    CASE c \in {"TotalCharges", "MonthlyCharges", "tenure"} -> to_numeric(r[c])
      [] c = "gender" -> MapDict(r[c], male_female)
      [] c \in {"Partner", "Dependents", "PhoneService", "PaperlessBilling"} ->
            MapDict(r[c], yes_no)
      [] c = "MultipleLines_Yes" -> MapDict(r["MultipleLines"], yes_no)
      [] c = "InternetService_Fiber optic" -> EqText(r["InternetService"], "Fiber optic")
      [] c = "InternetService_No" -> EqText(r["InternetService"], "No")
      [] c = "PaymentMethod_Credit card (automatic)" ->
            EqText(r["PaymentMethod"], "Credit card (automatic)")
      [] c = "PaymentMethod_Electronic check" ->
            EqText(r["PaymentMethod"], "Electronic check")
      [] c = "PaymentMethod_Mailed check" -> EqText(r["PaymentMethod"], "Mailed check")
      [] c = "TenureGroup_Mid" -> TenureGroup_Mid(to_numeric(r["tenure"]))
      [] c = "ChargeRatio" ->
            ChargeRatio(to_numeric(r["MonthlyCharges"]), to_numeric(r["TotalCharges"]))
      [] c = "Senior_Fiber" ->
            Senior_Fiber(r["SeniorCitizen"], EqText(r["InternetService"], "Fiber optic"))
      [] c = "HighRisk" -> HighRisk(to_numeric(r["MonthlyCharges"]))

\* the number of assignments preprocess_raw completes on df before a column
\* it reads is absent (KeyError)
StepsDone(df) ==
    LET bad == {k \in DOMAIN Assigned : ~(Range(Reads(Assigned[k])) \subseteq ColSet(df))}
    IN  IF bad = {} THEN Len(Assigned)
        ELSE (CHOOSE k \in bad : \A j \in bad : k <= j) - 1

\* the frame preprocess_raw was given, after its first k assignments
AfterSteps(df, k) ==
    LET done == SubSeq(Assigned, 1, k)
        new  == SelectSeq(done, LAMBDA c : c \notin ColSet(df))
    IN  DataFrame(df.cols \o new,
                  [i \in DOMAIN df.rows |->
                      [c \in ColSet(df) \cup Range(done) |->
                          IF c \in Range(done)
                          THEN EncodeCell(df.rows[i], c)
                          ELSE df.rows[i][c]]])

EmptyFrame == DataFrame(<< >>, << >>)

\* preprocess_raw(df): out is the returned frame (df[FEATURES].copy()), err the
\* column whose KeyError is re-raised as ValueError("Preprocessing error: ..."),
\* arg the frame passed in as the call leaves it (it is assigned in place)
preprocess_raw(df) ==
    LET k == StepsDone(df)
        after == AfterSteps(df, k)
    IN  IF k < Len(Assigned)
        THEN [ok |-> FALSE,
              err |-> Head(SelectSeq(Reads(Assigned[k + 1]), LAMBDA c : c \notin ColSet(df))),
              out |-> EmptyFrame, arg |-> after]
        ELSE [ok |-> TRUE, err |-> "", out |-> Select(after, FEATURES), arg |-> after]

(***************************************************************************)
(* The trained classifier (churn_model.pkl), a black box: it scores each   *)
(* row of a numeric matrix and raises on a cell that is no finite number.  *)
(***************************************************************************)
\* float(cell), as numpy converts a matrix to dtype float
AsFloat(v) == IF v.k = "str" THEN ParseFloat(v.s) ELSE v

Scorable(x) == \A j \in DOMAIN x : IsNum(AsFloat(x[j]))

RECURSIVE Weigh(_, _)
Weigh(x, j) ==
    IF j = 0 THEN 0 ELSE Weigh(x, j - 1) + j * (AsFloat(x[j]).n + AsFloat(x[j]).d)

\* the probability of class 1 for one row
Score(x) == Num(Weigh(x, Len(x)) % 101, 100)

\* model.predict_proba(X)[:, 1]
predict_proba(X) ==
    IF \A i \in DOMAIN X : Scorable(X[i])
    THEN [ok |-> TRUE, probs |-> [i \in DOMAIN X |-> Score(X[i])]]
    ELSE [ok |-> FALSE, probs |-> << >>]

(***************************************************************************)
(* The page: its state during one run of the script.                       *)
(***************************************************************************)
VARIABLES
    pc,            \* "bulk", "form", "done", or "stopped" after st.stop()
    input_type,    \* the radio button
    csv_file,      \* the uploaded file as a table, EmptyFrame when none is uploaded
    df_uploaded,   \* pd.read_csv(csv_file)
    df_processed,  \* the frame whose values go to the classifier
    calls,         \* the matrices handed to model.predict_proba, in order
    df_result,     \* the predictions table written to the page
    download,      \* the table offered by the download button
    msgs           \* st.success / st.error / st.warning, in order

vars == << pc, input_type, csv_file, df_uploaded, df_processed, calls,
           df_result, download, msgs >>

Msg(t, cols, v) == [t |-> t, cols |-> cols, v |-> v]

Call(path, X) == [path |-> path, X |-> X]

\* df.copy()
Copy(df) == df

\* df_result["Churn Probability"] = probs
WithProbs(df, probs) == SetCol(df, "Churn Probability", probs)

\* lines 98-118: fill NaNs, score every row, show and offer the result
BulkScore(up, proc, path, shown) ==
    LET null   == HasNull(proc)
        filled == IF null THEN fillna(proc) ELSE proc
        warned == IF null THEN Append(shown, Msg("warning", << >>, NaN)) ELSE shown
        X      == Values(filled)
        res    == predict_proba(X)
        result == WithProbs(Copy(up), res.probs)
    IN  /\ df_processed' = filled
        /\ calls' = Append(calls, Call(path, X))
        /\ IF res.ok
           THEN /\ df_result' = result
                /\ download' = result
                /\ msgs' = warned
           ELSE /\ UNCHANGED << df_result, download >>
                /\ msgs' = Append(warned, Msg("prediction_failed", << >>, NaN))
        /\ pc' = "form"

\* st.error(...); st.stop()
Stop(m) ==
    /\ msgs' = Append(msgs, m)
    /\ pc' = "stopped"
    /\ UNCHANGED << df_processed, calls, df_result, download >>

\* df_uploaded had preprocess_raw been given the frame itself, not a copy
UploadedAfterNoCopy(df, call) == call.arg

\* df_uploaded after line 85: preprocess_raw was given df_uploaded.copy(), so
\* its in-place assignments (call.arg) never reach df_uploaded
UploadedAfter(df, call) == df

\* only the first absent FEATURES name
MissingFirstOnly(df) ==
    SubSeq(SelectSeq(FEATURES, LAMBDA c : c \notin ColSet(df)), 1, 1)

\* the FEATURES names absent from the upload
MissingFeatures(df) == SelectSeq(FEATURES, LAMBDA c : c \notin ColSet(df))

\* the upload copied without selecting the FEATURES columns
SelectNothing(df) == Copy(df)

\* df_uploaded[FEATURES].copy()
SelectFeatures(df) == Copy(Select(df, FEATURES))

(***************************************************************************)
(* MANUAL SINGLE PREDICTION                                                *)
(***************************************************************************)
mapping == [Male |-> 0, Female |-> 1, Yes |-> 1, No |-> 0]

\* the features list of lines 151-156, as np.array(features, dtype=float)
ManualFeatures(f) ==
    << Int2(mapping[f.gender]), Int2(f.senior), Int2(mapping[f.partner]),
       Int2(mapping[f.dependents]), Int2(f.tenure), Int2(mapping[f.phone]),
       Int2(mapping[f.paperless]), f.monthly, f.total, Int2(mapping[f.multiple]),
       Int2(f.fiber), Int2(f.no_internet), Int2(f.credit), Int2(f.electronic),
       Int2(f.mailed), Int2(f.tenure_group_mid), f.charge_ratio,
       Int2(f.senior_fiber), Int2(f.high_risk) >>

(***************************************************************************)
(* The inputs of the model: uploads and form entries.                      *)
(***************************************************************************)
\* every record that differs from base in at most k fields, each changed
\* field taking one of its alternatives
RECURSIVE Ball(_, _, _)
Ball(base, alts, k) ==
    IF k = 0 THEN {base}
    ELSE LET prev == Ball(base, alts, k - 1)
         IN  prev \cup UNION {UNION {{[r EXCEPT ![f] = v] : v \in alts[f]} :
                                      f \in DOMAIN alts} : r \in prev}

\* the sequences over pool of length lo..hi
SeqsOf(pool, lo, hi) == UNION {[1..n -> pool] : n \in lo..hi}

Reverse(s) == [i \in DOMAIN s |-> s[Len(s) + 1 - i]]

\* the frame without the columns in drop
DropCols(df, drop) == Select(df, SelectSeq(df.cols, LAMBDA c : c \notin drop))

\* the frame with its columns in the order given
Reorder(df, cols) == Select(df, cols)

\* the columns of a raw survey export
RawCols ==
    << "customerID", "gender", "SeniorCitizen", "Partner", "Dependents", "tenure",
       "PhoneService", "MultipleLines", "InternetService", "PaperlessBilling",
       "PaymentMethod", "MonthlyCharges", "TotalCharges" >>

RawBase ==
    [customerID |-> Str("7590"), gender |-> Str("Female"), SeniorCitizen |-> Int2(1),
     Partner |-> Str("No"), Dependents |-> Str("No"), tenure |-> Int2(24),
     PhoneService |-> Str("Yes"), MultipleLines |-> Str("No"),
     InternetService |-> Str("Fiber optic"), PaperlessBilling |-> Str("Yes"),
     PaymentMethod |-> Str("Electronic check"), MonthlyCharges |-> Int2(90),
     TotalCharges |-> Int2(2000)]

RawAlts ==
    [gender |-> {Str("Male"), Str("Other"), NaN},
     SeniorCitizen |-> {Int2(0), NaN},
     Partner |-> {Str("Yes"), Str("Maybe")},
     Dependents |-> {Str("Yes"), NaN},
     tenure |-> {Int2(0), Int2(11), Int2(12), Int2(36), Int2(37), Str("24"), NaN},
     PhoneService |-> {Str("No"), Str("yes")},
     MultipleLines |-> {Str("Yes"), Str("No phone service")},
     InternetService |-> {Str("DSL"), Str("No"), Str("Satellite")},
     PaperlessBilling |-> {Str("No"), Int2(1)},
     PaymentMethod |-> {Str("Credit card (automatic)"), Str("Mailed check"),
                        Str("Bank transfer (automatic)"), Str("Crypto")},
     MonthlyCharges |-> {Int2(0), Int2(80), Num(161, 2), Str("90"), NaN},
     TotalCharges |-> {Int2(0), Int2(-1), Str("2000"), Str("N/A"), Str(" "), NaN}]

RawRows == Ball(RawBase, RawAlts, MaxRawEdits)

\* the rows batches are built from
RawPool ==
    { RawBase,
      [RawBase EXCEPT !.customerID = Str("5575"), !.TotalCharges = Str("N/A")],
      [RawBase EXCEPT !.customerID = Str("3668"), !.gender = Str("Male"),
                      !.TotalCharges = Int2(-1)],
      [RawBase EXCEPT !.customerID = Str("9237"), !.gender = Str("Other"),
                      !.SeniorCitizen = Int2(0), !.tenure = Int2(37),
                      !.InternetService = Str("Satellite"),
                      !.PaymentMethod = Str("Crypto"), !.MonthlyCharges = Int2(80),
                      !.TotalCharges = Int2(0)] }

RawFrames ==
    {DataFrame(RawCols, << r >>) : r \in RawRows}
        \cup {DataFrame(RawCols, rows) : rows \in SeqsOf(RawPool, 2, MaxRows)}

\* a raw frame with columns dropped, reversed, or a Churn Probability column added
RawVariants ==
    LET one == DataFrame(RawCols, << RawBase >>)
    IN  {DropCols(one, {a, b}) : a, b \in Range(RawCols)}
            \cup {Reorder(one, Reverse(RawCols))}
            \cup {SetCol(DataFrame(RawCols, rows), "Churn Probability",
                         [i \in DOMAIN rows |-> Num(1, 2)]) : rows \in SeqsOf(RawPool, 2, 2)}

\* the encoded example record
PreBase ==
    [c \in Range(FEATURES) |->
        CASE c \in {"gender", "SeniorCitizen", "PhoneService", "PaperlessBilling",
                    "InternetService_Fiber optic", "PaymentMethod_Electronic check",
                    "TenureGroup_Mid", "Senior_Fiber", "HighRisk"} -> Int2(1)
          [] c = "tenure" -> Int2(24)
          [] c = "MonthlyCharges" -> Int2(90)
          [] c = "TotalCharges" -> Int2(2000)
          [] c = "ChargeRatio" -> Num(90, 2001)
          [] OTHER -> Int2(0)]

PreAlts ==
    [c \in Range(FEATURES) |->
        {NaN, Str("abc"), Int2(5)} \cup (IF c = "ChargeRatio" THEN {Inf(1)} ELSE {})]

PreRows == Ball(PreBase, PreAlts, MaxPreEdits)

PrePool ==
    { PreBase,
      [PreBase EXCEPT !["gender"] = Int2(0), !["TotalCharges"] = NaN],
      [PreBase EXCEPT !["tenure"] = Int2(2), !["TenureGroup_Mid"] = Int2(1),
                      !["HighRisk"] = Int2(0)] }

PreFrames ==
    {DataFrame(FEATURES, << r >>) : r \in PreRows}
        \cup {DataFrame(FEATURES, rows) : rows \in SeqsOf(PrePool, 2, MaxRows)}

\* a pre-encoded frame with columns dropped, in another order, or with extra columns
PreVariants ==
    LET two == DataFrame(FEATURES, << PreBase, [PreBase EXCEPT !["gender"] = Int2(0)] >>)
        rev == Reorder(two, Reverse(FEATURES))
    IN  {DropCols(rev, {a, b}) : a, b \in Range(FEATURES)}
            \cup {rev}
            \cup {SetCol(SetCol(f, "customerID", << Str("7590"), Str("5575") >>),
                         "Churn Probability", << Num(1, 2), Num(1, 4) >>) : f \in {two, rev}}

Uploads == RawFrames \cup RawVariants \cup PreFrames \cup PreVariants

\* the form filled in as the example record
FormBase ==
    [gender |-> "Female", senior |-> 1, partner |-> "No", dependents |-> "No",
     tenure |-> 24, monthly |-> Int2(90), total |-> Int2(2000), paperless |-> "Yes",
     phone |-> "Yes", multiple |-> "No", fiber |-> 1, no_internet |-> 0,
     credit |-> 0, electronic |-> 1, mailed |-> 0, tenure_group_mid |-> 1,
     charge_ratio |-> Num(90, 2001), senior_fiber |-> 1, high_risk |-> 1]

\* the other choices of each widget
FormAlts ==
    [gender |-> {"Male"}, senior |-> {0}, partner |-> {"Yes"}, dependents |-> {"Yes"},
     tenure |-> {0, 12, 37, 100}, monthly |-> {Int2(0), Int2(80), Num(161, 2)},
     total |-> {Int2(0)}, paperless |-> {"No"}, phone |-> {"No"}, multiple |-> {"Yes"},
     fiber |-> {0}, no_internet |-> {1}, credit |-> {1}, electronic |-> {0},
     mailed |-> {1}, tenure_group_mid |-> {0}, charge_ratio |-> {Int2(0), Num(1, 2)},
     senior_fiber |-> {0}, high_risk |-> {0}]

Forms == Ball(FormBase, FormAlts, MaxFormEdits)

\* the forms submitted in a run that also has a file uploaded
ComboForms == {FormBase, [FormBase EXCEPT !.no_internet = 1, !.high_risk = 0]}

(***************************************************************************)
(* The script, section by section.                                         *)
(***************************************************************************)
Init ==
    /\ pc = "bulk"
    /\ input_type = "Raw CSV"
    /\ csv_file = EmptyFrame
    /\ df_uploaded = EmptyFrame
    /\ df_processed = EmptyFrame
    /\ calls = << >>
    /\ df_result = EmptyFrame
    /\ download = EmptyFrame
    /\ msgs = << >>

\* line 79: no file is uploaded
NoFile ==
    /\ pc = "bulk"
    /\ \E it \in {"Raw CSV", "Preprocessed CSV"} : input_type' = it
    /\ pc' = "form"
    /\ UNCHANGED << csv_file, df_uploaded, df_processed, calls, df_result,
                    download, msgs >>

\* lines 79-89 and 98-118: a file is uploaded and the radio is on "Raw CSV"
BulkRaw ==
    /\ pc = "bulk"
    /\ \E df \in Uploads :
          LET call == preprocess_raw(df)
          IN  /\ input_type' = "Raw CSV"
              /\ csv_file' = df
              /\ df_uploaded' = UploadedAfter(df, call)
              /\ IF call.ok
                 THEN BulkScore(UploadedAfter(df, call), call.out, "raw",
                                Append(msgs, Msg("preprocessed", << >>, NaN)))
                 ELSE Stop(Msg("preprocessing_error", << call.err >>, NaN))

\* lines 79-82 and 90-118: a file is uploaded and the radio is on "Preprocessed CSV"
BulkPre ==
    /\ pc = "bulk"
    /\ \E df \in Uploads :
          LET missing == MissingFeatures(df)
          IN  /\ input_type' = "Preprocessed CSV"
              /\ csv_file' = df
              /\ df_uploaded' = df
              /\ IF missing # << >>
                 THEN Stop(Msg("missing_columns", missing, NaN))
                 ELSE BulkScore(df, SelectFeatures(df), "pre", msgs)

\* lines 149-163: the form is submitted
Submit ==
    /\ pc = "form"
    /\ \E f \in (IF csv_file # EmptyFrame THEN ComboForms ELSE Forms) :
          LET X   == << ManualFeatures(f) >>
              res == predict_proba(X)
          IN  /\ calls' = Append(calls, Call("manual", X))
              /\ msgs' = Append(msgs, IF res.ok
                                      THEN Msg("churn_probability", << >>, res.probs[1])
                                      ELSE Msg("prediction_failed", << >>, NaN))
    /\ pc' = "done"
    /\ UNCHANGED << input_type, csv_file, df_uploaded, df_processed, df_result, download >>

\* line 149: the run was not started by the form's button
NoSubmit ==
    /\ pc = "form"
    /\ pc' = "done"
    /\ UNCHANGED << input_type, csv_file, df_uploaded, df_processed, calls,
                    df_result, download, msgs >>

\* the next interaction runs the script again from the top
Rerun ==
    /\ pc \in {"done", "stopped"}
    /\ pc' = "bulk"
    /\ input_type' = "Raw CSV"
    /\ csv_file' = EmptyFrame
    /\ df_uploaded' = EmptyFrame
    /\ df_processed' = EmptyFrame
    /\ calls' = << >>
    /\ df_result' = EmptyFrame
    /\ download' = EmptyFrame
    /\ msgs' = << >>

Next == NoFile \/ BulkRaw \/ BulkPre \/ Submit \/ NoSubmit \/ Rerun

Spec == Init /\ [][Next]_vars

(***************************************************************************)
(* Properties.                                                             *)
(***************************************************************************)
HasFile == csv_file # EmptyFrame

\* the source columns preprocess_raw needs
RawSourceCols ==
    {"gender", "SeniorCitizen", "Partner", "Dependents", "tenure", "PhoneService",
     "MultipleLines", "InternetService", "PaperlessBilling", "PaymentMethod",
     "MonthlyCharges", "TotalCharges"}

\* a raw upload with every source column went through the bulk section
RawUploaded ==
    HasFile /\ input_type = "Raw CSV" /\ RawSourceCols \subseteq ColSet(csv_file)

\* a pre-encoded upload with the 19 feature columns went through the bulk section
PreUploaded ==
    HasFile /\ input_type = "Preprocessed CSV" /\ Range(FEATURES) \subseteq ColSet(csv_file)

Bit(b) == IF b THEN Int2(1) ELSE Int2(0)

YesNoFields == {"Partner", "Dependents", "PhoneService", "PaperlessBilling", "MultipleLines"}

\* a raw record with every field inside its enumerated domain
InDomain(r) ==
    /\ r["gender"] \in {Str("Male"), Str("Female")}
    /\ \A f \in YesNoFields : r[f] \in {Str("Yes"), Str("No")}
    /\ r["InternetService"] \in {Str("Fiber optic"), Str("DSL"), Str("No")}
    /\ r["PaymentMethod"] \in {Str("Credit card (automatic)"), Str("Electronic check"),
                               Str("Mailed check"), Str("Bank transfer (automatic)")}
    /\ r["SeniorCitizen"] \in {Int2(0), Int2(1)}
    /\ \A f \in {"tenure", "MonthlyCharges", "TotalCharges"} : IsNum(r[f]) /\ r[f].n >= 0

\* x is the feature vector the mapping table and the derived-feature formulas
\* give the in-domain raw record r
IsEncodingOf(x, r) ==
    LET m == r["MonthlyCharges"]
        c == r["TotalCharges"]
        t == r["tenure"]
    IN  /\ Len(x) = 19
        /\ x[1] = Bit(r["gender"] = Str("Female"))
        /\ x[2] = r["SeniorCitizen"]
        /\ x[3] = Bit(r["Partner"] = Str("Yes"))
        /\ x[4] = Bit(r["Dependents"] = Str("Yes"))
        /\ x[5] = t
        /\ x[6] = Bit(r["PhoneService"] = Str("Yes"))
        /\ x[7] = Bit(r["PaperlessBilling"] = Str("Yes"))
        /\ x[8] = m
        /\ x[9] = c
        /\ x[10] = Bit(r["MultipleLines"] = Str("Yes"))
        /\ x[11] = Bit(r["InternetService"] = Str("Fiber optic"))
        /\ x[12] = Bit(r["InternetService"] = Str("No"))
        /\ x[13] = Bit(r["PaymentMethod"] = Str("Credit card (automatic)"))
        /\ x[14] = Bit(r["PaymentMethod"] = Str("Electronic check"))
        /\ x[15] = Bit(r["PaymentMethod"] = Str("Mailed check"))
        /\ x[16] = Bit(12 * t.d <= t.n /\ t.n <= 36 * t.d)
        /\ IsNum(x[17]) /\ x[17].n * m.d * (c.n + c.d) = x[17].d * m.n * c.d
        /\ x[18] = Bit(r["SeniorCitizen"] = Int2(1) /\ r["InternetService"] = Str("Fiber optic"))
        /\ x[19] = Bit(m.n > 80 * m.d)

\* the vector of the example record
ExampleVector ==
    << Int2(1), Int2(1), Int2(0), Int2(0), Int2(24), Int2(1), Int2(1), Int2(90),
       Int2(2000), Int2(0), Int2(1), Int2(0), Int2(0), Int2(1), Int2(0), Int2(1),
       Num(90, 2001), Int2(1), Int2(1) >>

IsExample(r) == \A c \in DOMAIN RawBase \ {"customerID"} : r[c] = RawBase[c]

\* C1: in raw mode every uploaded record that is inside the enumerated domains is
\* encoded as the 19 slots in FEATURES order by the mapping table and the derived
\* formulas, and the example record as [1,1,0,0,24,1,1,90,2000,0,1,0,0,1,0,1,90/2001,1,1].
C1_RawEncoding ==
    RawUploaded =>
        /\ pc # "stopped"
        /\ df_processed.cols = FEATURES
        /\ Len(calls) >= 1
        /\ calls[1].path = "raw"
        /\ calls[1].X = Values(df_processed)
        /\ \A i \in DOMAIN csv_file.rows :
              LET r == csv_file.rows[i]
              IN  InDomain(r) =>
                      /\ IsEncodingOf(calls[1].X[i], r)
                      /\ IsExample(r) => calls[1].X[i] = ExampleVector

C1_Witness ==
    /\ RawUploaded
    /\ Len(csv_file.rows) = 2
    /\ IsExample(csv_file.rows[2])
    /\ calls[1].X[2] = ExampleVector

\* the slot of each two-valued categorical field
BinarySlot ==
    [gender |-> 1, Partner |-> 3, Dependents |-> 4, PhoneService |-> 6,
     PaperlessBilling |-> 7, MultipleLines |-> 10]

BinaryDomain(f) ==
    IF f = "gender" THEN {Str("Male"), Str("Female")} ELSE {Str("Yes"), Str("No")}

\* C2: the bulk raw path never hands the classifier a vector in which the slot of
\* an out-of-domain categorical value holds the code of an in-domain category.
C2_NoSilentGuess ==
    \A k \in DOMAIN calls :
        calls[k].path = "raw" =>
            \A i \in DOMAIN csv_file.rows : \A f \in DOMAIN BinarySlot :
                csv_file.rows[i][f] \notin BinaryDomain(f) =>
                    calls[k].X[i][BinarySlot[f]] \notin {Int2(0), Int2(1)}

IndexIn(s, c) == CHOOSE j \in DOMAIN s : s[j] = c

\* s lists exactly the members of set, each once, in the order they have in FEATURES
ListsInFeatureOrder(s, set) ==
    /\ Range(s) = set
    /\ \A i, j \in DOMAIN s : i < j => IndexIn(FEATURES, s[i]) < IndexIn(FEATURES, s[j])

Rejected == pc = "stopped" /\ calls = << >> /\ df_result = EmptyFrame /\ download = EmptyFrame

\* C3: an upload that lacks a required column is rejected with an error, the
\* classifier is not invoked and no table or download is produced; in pre-encoded
\* mode the error lists exactly the absent FEATURES names in FEATURES order.
C3_MissingColumnRejected ==
    /\ (HasFile /\ input_type = "Raw CSV" /\ ~(RawSourceCols \subseteq ColSet(csv_file))) =>
            /\ Rejected
            /\ Len(msgs) = 1
            /\ msgs[1].t = "preprocessing_error"
            /\ Range(msgs[1].cols) \subseteq RawSourceCols \ ColSet(csv_file)
    /\ (HasFile /\ input_type = "Preprocessed CSV"
            /\ ~(Range(FEATURES) \subseteq ColSet(csv_file))) =>
            /\ Rejected
            /\ Len(msgs) = 1
            /\ msgs[1].t = "missing_columns"
            /\ ListsInFeatureOrder(msgs[1].cols, Range(FEATURES) \ ColSet(csv_file))

C3_Witness ==
    /\ pc = "stopped"
    /\ input_type = "Preprocessed CSV"
    /\ Len(msgs[1].cols) = 2
    /\ csv_file.cols[1] = "HighRisk"

\* the bulk section reached the classifier
BulkRan == HasFile /\ pc \in {"form", "done"}

\* row i of the upload has its prediction in the result table
HasPrediction(i) ==
    /\ Len(df_result.rows) = Len(csv_file.rows)
    /\ "Churn Probability" \in ColSet(df_result)
    /\ df_result.rows[i]["Churn Probability"] = Score(calls[1].X[i])

\* C4: a failure confined to one row of a batch does not abort the batch: every
\* other row still receives its prediction.
C4_RowFailureIsolated ==
    BulkRan =>
        \A i \in DOMAIN csv_file.rows : Scorable(calls[1].X[i]) => HasPrediction(i)

\* C5: every slot of every vector handed to the classifier is a finite number.
C5_AllSlotsFinite ==
    \A k \in DOMAIN calls :
        \A i \in DOMAIN calls[k].X : \A j \in DOMAIN calls[k].X[i] :
            IsNum(calls[k].X[i][j])

\* the four derived slots of x are the stated functions of its earlier slots
DerivedHold(x) ==
    /\ x[16] = Bit(IsNum(x[5]) /\ 12 * x[5].d <= x[5].n /\ x[5].n <= 36 * x[5].d)
    /\ IsNum(x[17]) /\ IsNum(x[8]) /\ IsNum(x[9])
    /\ x[9].n + x[9].d # 0
    /\ x[17].n * x[8].d * (x[9].n + x[9].d) = x[17].d * x[8].n * x[9].d
    /\ IsNum(x[18]) /\ IsNum(x[2]) /\ IsNum(x[11])
    /\ x[18].n * x[2].d * x[11].d = x[18].d * x[2].n * x[11].n
    /\ x[19] = Bit(IsNum(x[8]) /\ x[8].n > 80 * x[8].d)

\* C6: in every vector built from a raw CSV row or from the manual form, the four
\* derived slots are the stated functions of the earlier slots.
C6_DerivedSlots ==
    \A k \in DOMAIN calls :
        calls[k].path \in {"raw", "manual"} =>
            \A i \in DOMAIN calls[k].X : DerivedHold(calls[k].X[i])

\* the bulk section reached the classifier and the classifier returned
BulkSucceeded == BulkRan /\ predict_proba(calls[1].X).ok

\* the result has the uploaded rows and the columns in keep unchanged, and its
\* Churn Probability column holds the score of each row's vector
ExportKeeps(cols, keep) ==
    /\ df_result.cols = cols
    /\ download = df_result
    /\ Len(df_result.rows) = Len(csv_file.rows)
    /\ \A i \in DOMAIN csv_file.rows :
          /\ \A c \in keep : df_result.rows[i][c] = csv_file.rows[i][c]
          /\ df_result.rows[i]["Churn Probability"] = Score(calls[1].X[i])

\* C7 as stated: the result table is the upload, every column and value unchanged,
\* plus exactly one appended column Churn Probability holding each row's score.
C7_ExportAppendsOneColumn ==
    BulkSucceeded =>
        ExportKeeps(Append(csv_file.cols, "Churn Probability"), ColSet(csv_file))

\* C7 as amended: the result table has the uploaded rows in order and every
\* uploaded column other than Churn Probability unchanged; Churn Probability is
\* appended as the last column when the upload has none and overwritten in place
\* when it has one, and holds each row's score.
C7_ExportSetsColumn ==
    BulkSucceeded =>
        ExportKeeps(IF "Churn Probability" \in ColSet(csv_file)
                    THEN csv_file.cols
                    ELSE Append(csv_file.cols, "Churn Probability"),
                    ColSet(csv_file) \ {"Churn Probability"})

C7_Witness ==
    /\ BulkSucceeded
    /\ input_type = "Raw CSV"
    /\ "Churn Probability" \in ColSet(csv_file)
    /\ Len(df_result.rows) = 2
    /\ df_result.rows[1]["Churn Probability"] # df_result.rows[2]["Churn Probability"]
    /\ df_result.rows[1]["Churn Probability"] # csv_file.rows[1]["Churn Probability"]

\* C8: in pre-encoded mode the vector handed to the classifier is the 19 supplied
\* values in FEATURES order, whatever the upload's column order and extra columns,
\* no value altered other than a missing value becoming 0.
C8_PreEncodedRoundTrip ==
    PreUploaded =>
        /\ pc # "stopped"
        /\ Len(calls) >= 1
        /\ calls[1].path = "pre"
        /\ Len(calls[1].X) = Len(csv_file.rows)
        /\ \A i \in DOMAIN csv_file.rows :
              /\ Len(calls[1].X[i]) = 19
              /\ \A j \in 1..19 :
                    LET cell == csv_file.rows[i][FEATURES[j]]
                    IN  calls[1].X[i][j] = IF cell = NaN THEN Int2(0) ELSE cell

C8_Witness ==
    /\ PreUploaded
    /\ csv_file.cols[1] = "HighRisk"
    /\ "customerID" \in ColSet(csv_file)
    /\ Len(calls[1].X) = 2
    /\ calls[1].X[1][19] = Int2(1)
    /\ calls[1].X[2][1] = Int2(0)

\* C9: in a batch of 3 raw rows whose row 2 has TotalCharges "N/A", the batch
\* yields 3 results, row 2's vector has totalCharges 0 and chargeRatio equal to
\* monthlyCharges, and rows 1 and 3 are encoded as on their own.
C9_CoercionInBatch ==
    (/\ RawUploaded
     /\ Len(csv_file.rows) = 3
     /\ csv_file.rows[2]["TotalCharges"] = Str("N/A")
     /\ InDomain([csv_file.rows[2] EXCEPT !["TotalCharges"] = Int2(0)])
     /\ InDomain(csv_file.rows[1])
     /\ InDomain(csv_file.rows[3])) =>
        /\ pc # "stopped"
        /\ Len(df_result.rows) = 3
        /\ calls[1].X[2][9] = Int2(0)
        /\ calls[1].X[2][17] = calls[1].X[2][8]
        /\ IsEncodingOf(calls[1].X[1], csv_file.rows[1])
        /\ IsEncodingOf(calls[1].X[3], csv_file.rows[3])

AtMostOne(x, slots) == Cardinality({j \in slots : x[j] = Int2(1)}) <= 1

AllZero(x, slots) == \A j \in slots : x[j] = Int2(0)

\* C10: in every vector encoded from a raw record or entered through the form, at
\* most one internetService slot and at most one paymentMethod slot is 1, and an
\* unlisted category gives all-zero slots for its group and raises no error.
C10_OneHotGroups ==
    /\ \A k \in DOMAIN calls :
          calls[k].path \in {"raw", "manual"} =>
              \A i \in DOMAIN calls[k].X :
                  /\ AtMostOne(calls[k].X[i], {11, 12})
                  /\ AtMostOne(calls[k].X[i], {13, 14, 15})
    /\ RawUploaded =>
          /\ pc # "stopped"
          /\ \A i \in DOMAIN csv_file.rows :
                /\ csv_file.rows[i]["InternetService"] \notin {Str("Fiber optic"), Str("No")}
                      => AllZero(calls[1].X[i], {11, 12})
                /\ csv_file.rows[i]["PaymentMethod"] \notin
                          {Str("Credit card (automatic)"), Str("Electronic check"),
                           Str("Mailed check")}
                      => AllZero(calls[1].X[i], {13, 14, 15})

====
